---------------------------- MODULE Spec2Model ----------------------------
(***************************************************************************)
(* EduHireNexus: moderation and application-lifecycle workflow.            *)
(*                                                                         *)
(* The store is the five collections of the Entity Store (users,           *)
(* companies, jobs, applications, auditLogs).  Two families of handlers    *)
(* are written against it: the Express routes over MemStorage              *)
(* (server/types/express.d.ts, server/storage.ts) and the Cloud Functions  *)
(* over Firestore (unnamed/part_000), plus the Firestore client search     *)
(* (unnamed/part_002) and the admin deleteUser (unnamed/part_001).         *)
(* A collection is a sequence of records in insertion order (the order a   *)
(* JavaScript Map iterates in); ids are opaque naturals.                   *)
(***************************************************************************)
EXTENDS Naturals, Integers, Sequences, FiniteSets, TLC

(* ------------------------------ bounds -------------------------------- *)
MaxCompanies == 2
MaxJobs == 2
MaxApps == 2
MaxAudit == 3
MaxTime == 1
MaxLimit == 2
MaxPage == 2
MaxViews == 1
MaxReviewLog == 5

(* ----------------------------- universes ------------------------------ *)
Users == {"u1", "u2"}
Admin == "adm"
Principals == Users \cup {Admin}
CompanyIds == 1..MaxCompanies
JobIds == 1..MaxJobs
Times == 0..MaxTime
Slots == {1, 2}

CompanyStatus == {"pending", "approved", "rejected"}
JobStatus == {"pending", "approved", "rejected", "expired"}
NoOne == "none"

VARIABLES
  now,          \* the wall clock read by new Date() / Timestamp.now()
  claimRole,    \* Firebase Auth custom claim "role" of each user's token
  users,        \* users collection: profile role, or "absent"
  companies,    \* companies collection
  jobs,         \* jobs collection
  applications, \* applications collection
  auditLogs,    \* auditLogs collection
  req,          \* in-flight requests, one per slot: application submissions,
                \* or a sign-up (slot 1) and its onCreate trigger (slot 2)
  sweep,        \* the scheduled expireJobs run
  resp,         \* the response of the last moderation handler that ran
  searchOut,    \* the search being answered: its filters and its response
  nextId        \* ids handed out so far (randomUUID / Firestore auto-id:
                \* an id is never handed out twice)

vars == <<now, claimRole, users, companies, jobs, applications, auditLogs,
          req, sweep, resp, searchOut, nextId>>

(* ------------------------- collection helpers ------------------------- *)
IdsOf(s) == {s[i].id : i \in 1..Len(s)}
Has(s, id) == \E i \in 1..Len(s) : s[i].id = id
Get(s, id) == s[CHOOSE i \in 1..Len(s) : s[i].id = id]

(* A token decoder that reports the admin claim for every account. *)
AnyoneIsAdmin(p) == "admin"

(* The role a token carries: the custom claim; the admin account's claim
   is fixed. *)
TokenRole(p) == IF p = Admin THEN "admin" ELSE claimRole[p]

IdleReq == [pc |-> "idle"]
IdleSweep == [pc |-> "idle", docs |-> {}]
NoResp == [op |-> "none", result |-> "none"]
NoSearch == [impl |-> "none"]

(* ------------------------------ records ------------------------------- *)
Merge(rec, upd) == [f \in DOMAIN rec \cup DOMAIN upd |->
                      IF f \in DOMAIN upd THEN upd[f] ELSE rec[f]]

AuditEntry(actor, action, targetType, targetId) ==
  [actorUid |-> actor, action |-> action, targetType |-> targetType,
   targetId |-> targetId]

(* What a caller supplies for a job in the workflow specifications: the
   deadline varies, the display fields are fixed. *)
(* An optional field is the empty set when missing, a singleton otherwise. *)
JobFields(cid, lastDate, department, salary) ==
  [companyId |-> cid, lastDate |-> lastDate, department |-> department,
   minSalary |-> salary, maxSalary |-> salary]
JobInput(cid, lastDate) == JobFields(cid, lastDate, "Mathematics", {})

(* --------------------------- MemStorage ------------------------------- *)
createCompany(cs, id, ownerUid) ==
  Append(cs, [id |-> id, ownerUid |-> ownerUid, status |-> "pending"])

updateCompany(cs, id, upd) ==
  [i \in 1..Len(cs) |-> IF cs[i].id = id THEN Merge(cs[i], upd) ELSE cs[i]]

createJob(js, id, input, posterUid, t) ==
  Append(js, Merge(input,
    [id |-> id, posterUid |-> posterUid,
     status |-> "pending", viewCount |-> 0, applicationCount |-> 0,
     approvedBy |-> NoOne, createdAt |-> t]))

updateJob(js, id, upd) ==
  [i \in 1..Len(js) |-> IF js[i].id = id THEN Merge(js[i], upd) ELSE js[i]]

createAuditLog(log, entry) == Append(log, entry)

(* requireRole reads a token without a role claim as a seeker's. *)
UserRole(p) == IF TokenRole(p) = NoOne THEN "seeker" ELSE TokenRole(p)

(* The role guard alone, as a route mounted without requireEmailVerification
   applies it. *)
RoleGuard(p, ev, roles) ==
  IF UserRole(p) \notin roles THEN "403 Insufficient permissions"
  ELSE "next"

(* ------------------------- Express middleware -------------------------- *)
(* authenticateUser has accepted the token; the two guards that follow. *)
Denied(p, ev, roles) ==
  IF ~ev THEN "403 Email verification required"
  ELSE IF UserRole(p) \notin roles THEN "403 Insufficient permissions"
  ELSE "next"

AllRoles == {"seeker", "employer", "admin"}

(* ---------------------- company routes and functions ------------------- *)
(* POST /api/companies *)
PostCompanies(p, ev) ==
  LET d == Denied(p, ev, AllRoles) IN
  /\ nextId.company <= MaxCompanies
  /\ IF d # "next"
     THEN /\ resp' = [op |-> "POST /api/companies", result |-> d]
          /\ UNCHANGED <<companies, nextId>>
     ELSE /\ companies' = createCompany(companies, nextId.company, p)
          /\ nextId' = [nextId EXCEPT !.company = @ + 1]
          /\ resp' = [op |-> "POST /api/companies", result |-> "200"]
  /\ UNCHANGED <<now, claimRole, users, jobs, applications, auditLogs, req,
                 sweep, searchOut>>

(* requestEmployerUpgrade: every error raised inside the try block leaves
   the function as 'internal'. *)
requestEmployerUpgrade(p, ev) ==
  /\ nextId.company <= MaxCompanies
  /\ Len(auditLogs) < MaxAudit
  /\ IF ~ev
     THEN /\ resp' = [op |-> "requestEmployerUpgrade", result |-> "unauthenticated"]
          /\ UNCHANGED <<companies, auditLogs, nextId>>
     ELSE IF \E i \in 1..Len(companies) : companies[i].ownerUid = p
     THEN /\ resp' = [op |-> "requestEmployerUpgrade", result |-> "internal"]
          /\ UNCHANGED <<companies, auditLogs, nextId>>
     ELSE /\ companies' = createCompany(companies, nextId.company, p)
          /\ nextId' = [nextId EXCEPT !.company = @ + 1]
          /\ auditLogs' = createAuditLog(auditLogs,
               AuditEntry(p, "company_created", "company",
                          nextId.company))
          /\ resp' = [op |-> "requestEmployerUpgrade", result |-> "ok"]
  /\ UNCHANGED <<now, claimRole, users, jobs, applications, req, sweep,
                 searchOut>>

(* PATCH /api/admin/companies/:id/status *)
PatchCompanyStatus(p, ev, cid, status) ==
  LET d == Denied(p, ev, {"admin"}) IN
  /\ Len(auditLogs) < MaxAudit
  /\ IF d # "next"
     THEN /\ resp' = [op |-> "PATCH company status", result |-> d]
          /\ UNCHANGED <<companies, auditLogs>>
     ELSE IF status \notin {"approved", "rejected"}
     THEN /\ resp' = [op |-> "PATCH company status", result |-> "400 Invalid status"]
          /\ UNCHANGED <<companies, auditLogs>>
     ELSE /\ companies' = updateCompany(companies, cid, [status |-> status])
          /\ auditLogs' = createAuditLog(auditLogs,
               AuditEntry(p, IF status = "approved" THEN "company_approved"
                             ELSE "company_rejected", "company", cid))
          /\ resp' = [op |-> "PATCH company status", result |-> "200"]
  /\ UNCHANGED <<nextId, now, claimRole, users, jobs, applications, req, sweep,
                 searchOut>>

(* approveEmployerUpgrade({uid, companyId}): the company update, the custom
   claim and the profile update follow each other; the first that throws
   ends the function with 'internal' and keeps what was written before. *)
approveEmployerUpgrade(p, uid, cid) ==
  /\ Len(auditLogs) < MaxAudit
  /\ IF TokenRole(p) # "admin"
     THEN /\ resp' = [op |-> "approveEmployerUpgrade", result |-> "permission-denied"]
          /\ UNCHANGED <<companies, claimRole, users, auditLogs>>
     ELSE IF ~Has(companies, cid)
     THEN /\ resp' = [op |-> "approveEmployerUpgrade", result |-> "internal"]
          /\ UNCHANGED <<companies, claimRole, users, auditLogs>>
     ELSE /\ companies' = updateCompany(companies, cid, [status |-> "approved"])
          /\ claimRole' = [claimRole EXCEPT ![uid] = "employer"]
          /\ IF users[uid] = "absent"
             THEN /\ resp' = [op |-> "approveEmployerUpgrade", result |-> "internal"]
                  /\ UNCHANGED <<users, auditLogs>>
             ELSE /\ users' = [users EXCEPT ![uid] = "employer"]
                  /\ auditLogs' = createAuditLog(auditLogs,
                       AuditEntry(p, "company_approved", "company", cid))
                  /\ resp' = [op |-> "approveEmployerUpgrade", result |-> "ok"]
  /\ UNCHANGED <<nextId, now, jobs, applications, req, sweep, searchOut>>

(* ------------------------ job routes and functions --------------------- *)
(* POST /api/jobs *)
PostJobs(p, ev, cid, lastDate) ==
  LET d == Denied(p, ev, {"employer"}) IN
  /\ nextId.job <= MaxJobs
  /\ IF d # "next"
     THEN /\ resp' = [op |-> "POST /api/jobs", result |-> d]
          /\ UNCHANGED <<jobs, nextId>>
     ELSE IF \/ ~Has(companies, cid)
             \/ Get(companies, cid).status # "approved"
             \/ Get(companies, cid).ownerUid # p
     THEN /\ resp' = [op |-> "POST /api/jobs",
                      result |-> "403 Company must be approved to post jobs"]
          /\ UNCHANGED <<jobs, nextId>>
     ELSE /\ jobs' = createJob(jobs, nextId.job, JobInput(cid, lastDate), p, now)
          /\ nextId' = [nextId EXCEPT !.job = @ + 1]
          /\ resp' = [op |-> "POST /api/jobs", result |-> "200"]
  /\ UNCHANGED <<now, claimRole, users, companies, applications, auditLogs,
                 req, sweep, searchOut>>

(* createJob (callable): the checks inside the try block all end as
   'internal'. *)
createJobFn(p, ev, cid, lastDate) ==
  /\ nextId.job <= MaxJobs
  /\ Len(auditLogs) < MaxAudit
  /\ IF ~ev \/ TokenRole(p) # "employer"
     THEN /\ resp' = [op |-> "createJob", result |-> "permission-denied"]
          /\ UNCHANGED <<jobs, auditLogs, nextId>>
     ELSE IF \/ ~Has(companies, cid)
             \/ Get(companies, cid).ownerUid # p
             \/ Get(companies, cid).status # "approved"
     THEN /\ resp' = [op |-> "createJob", result |-> "internal"]
          /\ UNCHANGED <<jobs, auditLogs, nextId>>
     ELSE /\ jobs' = createJob(jobs, nextId.job, JobInput(cid, lastDate), p, now)
          /\ nextId' = [nextId EXCEPT !.job = @ + 1]
          /\ auditLogs' = createAuditLog(auditLogs,
               AuditEntry(p, "job_created", "job", nextId.job))
          /\ resp' = [op |-> "createJob", result |-> "ok"]
  /\ UNCHANGED <<now, claimRole, users, companies, applications, req, sweep,
                 searchOut>>

(* PATCH /api/admin/jobs/:id/status *)
PatchJobStatus(p, ev, jid, status) ==
  LET d == Denied(p, ev, {"admin"})
      updateData == IF status = "approved"
                    THEN [status |-> status, approvedBy |-> p]
                    ELSE [status |-> status]
  IN
  /\ Len(auditLogs) < MaxAudit
  /\ IF d # "next"
     THEN /\ resp' = [op |-> "PATCH job status", result |-> d]
          /\ UNCHANGED <<jobs, auditLogs>>
     ELSE IF status \notin {"approved", "rejected"}
     THEN /\ resp' = [op |-> "PATCH job status", result |-> "400 Invalid status"]
          /\ UNCHANGED <<jobs, auditLogs>>
     ELSE /\ jobs' = updateJob(jobs, jid, updateData)
          /\ auditLogs' = createAuditLog(auditLogs,
               AuditEntry(p, IF status = "approved" THEN "job_approved"
                             ELSE "job_rejected", "job", jid))
          /\ resp' = [op |-> "PATCH job status", result |-> "200"]
  /\ UNCHANGED <<nextId, now, claimRole, users, companies, applications, req, sweep,
                 searchOut>>

(* approveJob (callable): a Firestore update of a missing document throws. *)
approveJob(p, jid) ==
  /\ Len(auditLogs) < MaxAudit
  /\ IF TokenRole(p) # "admin"
     THEN /\ resp' = [op |-> "approveJob", result |-> "permission-denied"]
          /\ UNCHANGED <<jobs, auditLogs>>
     ELSE IF ~Has(jobs, jid)
     THEN /\ resp' = [op |-> "approveJob", result |-> "internal"]
          /\ UNCHANGED <<jobs, auditLogs>>
     ELSE /\ jobs' = updateJob(jobs, jid,
                        [status |-> "approved", approvedBy |-> p])
          /\ auditLogs' = createAuditLog(auditLogs,
               AuditEntry(p, "job_approved", "job", jid))
          /\ resp' = [op |-> "approveJob", result |-> "ok"]
  /\ UNCHANGED <<nextId, now, claimRole, users, companies, applications, req, sweep,
                 searchOut>>

(* ---------------------- job creation from a request body --------------- *)
(* What a caller can put into the body besides the schema's fields: values
   for the fields the store sets itself, and the apply mode. *)
ExtraFields ==
  [status |-> "approved", viewCount |-> MaxViews, applicationCount |-> MaxViews,
   applyMode |-> "external"]
ExtraKeys == {{}, {"status", "viewCount", "applicationCount"}, {"applyMode"},
              {"status", "viewCount", "applicationCount", "applyMode"}}
JobBody(cid, lastDate, K) ==
  Merge(JobInput(cid, lastDate), [k \in K |-> ExtraFields[k]])

(* jobSchema.parse: a z.object keeps the keys it declares and strips the
   others; the body's lastDate is a well-formed date string. *)
jobSchema == {"companyId", "lastDate", "department", "minSalary", "maxSalary"}
Parse(schema, body) == [k \in DOMAIN body \cap schema |-> body[k]]

(* The company check of both handlers: the company exists, is approved and
   is owned by the caller. *)
(* The lookup alone: some company is stored under the id. *)
CompanyExists(p, cid) == Has(companies, cid)

OwnsApproved(p, cid) ==
  /\ Has(companies, cid)
  /\ Get(companies, cid).status = "approved"
  /\ Get(companies, cid).ownerUid = p

(* POST /api/jobs, with the body it was sent and the job it answers with *)
PostJobsBody(p, ev, body) ==
  LET d == Denied(p, ev, {"employer"})
      validatedData == Parse(jobSchema, body)
      cid == validatedData.companyId
      op == [op |-> "POST /api/jobs", body |-> body]
  IN
  /\ nextId.job <= MaxJobs
  /\ IF d # "next"
     THEN /\ resp' = Merge(op, [result |-> d])
          /\ UNCHANGED <<jobs, nextId>>
     ELSE IF ~OwnsApproved(p, cid)
     THEN /\ resp' = Merge(op,
                  [result |-> "403 Company must be approved to post jobs"])
          /\ UNCHANGED <<jobs, nextId>>
     ELSE /\ jobs' = createJob(jobs, nextId.job,
                               Merge(validatedData, [status |-> "pending"]),
                               p, now)
          /\ nextId' = [nextId EXCEPT !.job = @ + 1]
          /\ resp' = Merge(op, [result |-> "200", id |-> nextId.job])
  /\ UNCHANGED <<now, claimRole, users, companies, applications, auditLogs,
                 req, sweep, searchOut>>

(* createJob (callable), with the data it was called with *)
createJobData(p, ev, data) ==
  LET validatedData == Parse(jobSchema, data)
      cid == validatedData.companyId
      op == [op |-> "createJob", body |-> data]
  IN
  /\ nextId.job <= MaxJobs
  /\ Len(auditLogs) < MaxAudit
  /\ IF ~ev \/ TokenRole(p) # "employer"
     THEN /\ resp' = Merge(op, [result |-> "permission-denied"])
          /\ UNCHANGED <<jobs, auditLogs, nextId>>
     ELSE IF ~OwnsApproved(p, cid)
     THEN /\ resp' = Merge(op, [result |-> "internal"])
          /\ UNCHANGED <<jobs, auditLogs, nextId>>
     ELSE /\ jobs' = createJob(jobs, nextId.job, validatedData, p, now)
          /\ nextId' = [nextId EXCEPT !.job = @ + 1]
          /\ auditLogs' = createAuditLog(auditLogs,
               AuditEntry(p, "job_created", "job", nextId.job))
          /\ resp' = Merge(op, [result |-> "ok", id |-> nextId.job])
  /\ UNCHANGED <<now, claimRole, users, companies, applications, req, sweep,
                 searchOut>>

(* GET /api/jobs/:id: answers with the job it read, then counts the view. *)
GetJob(jid) ==
  /\ IF ~Has(jobs, jid)
     THEN /\ resp' = [op |-> "GET /api/jobs/:id", result |-> "404 Job not found"]
          /\ UNCHANGED jobs
     ELSE /\ Get(jobs, jid).viewCount < MaxViews
          /\ jobs' = updateJob(jobs, jid,
                               [viewCount |-> Get(jobs, jid).viewCount + 1])
          /\ resp' = [op |-> "GET /api/jobs/:id", result |-> "200",
                      job |-> Get(jobs, jid)]
  /\ UNCHANGED <<nextId, now, claimRole, users, companies, applications,
                 auditLogs, req, sweep, searchOut>>

(* jobService.getById: the document as stored, or null. *)
getById(jid) ==
  /\ resp' = IF Has(jobs, jid)
             THEN [op |-> "jobService.getById", result |-> "found",
                   job |-> Get(jobs, jid)]
             ELSE [op |-> "jobService.getById", result |-> "null"]
  /\ UNCHANGED <<nextId, now, claimRole, users, companies, jobs, applications,
                 auditLogs, req, sweep, searchOut>>

(* ------------------------------ expireJobs ----------------------------- *)
(* The query: approved jobs whose deadline lies before Timestamp.now(). *)
ExpiredDocs(js, t) ==
  {js[i].id : i \in {k \in 1..Len(js) :
                       js[k].status = "approved" /\ js[k].lastDate < t}}

expireJobsQuery ==
  /\ sweep.pc = "idle"
  /\ sweep' = IF ExpiredDocs(jobs, now) = {} THEN IdleSweep
              ELSE [pc |-> "commit", docs |-> ExpiredDocs(jobs, now)]
  /\ UNCHANGED <<nextId, now, claimRole, users, companies, jobs, applications,
                 auditLogs, req, resp, searchOut>>

(* batch.commit(): the batch is applied as a whole; an update of a document
   that no longer exists fails the whole batch, which the function's catch
   logs and drops. *)
BatchExpire(js, docs) ==
  IF docs \subseteq IdsOf(js)
  THEN [i \in 1..Len(js) |-> IF js[i].id \in docs
                             THEN Merge(js[i], [status |-> "expired"])
                             ELSE js[i]]
  ELSE js

expireJobsCommit ==
  /\ sweep.pc = "commit"
  /\ jobs' = BatchExpire(jobs, sweep.docs)
  /\ sweep' = IdleSweep
  /\ UNCHANGED <<nextId, now, claimRole, users, companies, applications, auditLogs,
                 req, resp, searchOut>>

(* ------------------------------- search -------------------------------- *)
(* Of the filter set, department stands for the equality filters
   (instituteType, level, employmentType are coded the same way) and
   postedWithin for the date filter; the text query and location are not
   part of the model. *)
Departments == {"Mathematics", "Physics"}
SortKeys == {"newest", "deadline", "salary_high", "salary_low"}
Filters == [department : {"any", "Mathematics"},
            postedWithin : {"all", "24h"},
            sortBy : SortKeys]

OrZero(opt) == IF opt = {} THEN 0 ELSE CHOOSE n \in opt : TRUE

DaysAgo(postedWithin) ==
  CASE postedWithin = "24h" -> 1
    [] postedWithin = "7d" -> 7
    [] postedWithin = "30d" -> 30
    [] OTHER -> 0

(* The comparator handed to Array.prototype.sort. *)
Compare(sortBy, a, b) ==
  CASE sortBy = "deadline" -> a.lastDate - b.lastDate
    [] sortBy = "salary_high" -> OrZero(b.maxSalary) - OrZero(a.maxSalary)
    [] sortBy = "salary_low" -> OrZero(a.minSalary) - OrZero(b.minSalary)
    [] OTHER -> b.createdAt - a.createdAt

(* Firestore's order: the orderBy field in its direction, then the
   document id in the same direction. *)
FieldCompare(sortBy, a, b) ==
  CASE sortBy = "deadline" -> a.lastDate - b.lastDate
    [] sortBy = "salary_high" -> OrZero(b.maxSalary) - OrZero(a.maxSalary)
    [] sortBy = "salary_low" -> OrZero(a.minSalary) - OrZero(b.minSalary)
    [] sortBy = "newest" -> b.createdAt - a.createdAt
QueryCompare(sortBy, a, b) ==
  IF FieldCompare(sortBy, a, b) # 0 THEN FieldCompare(sortBy, a, b)
  ELSE IF sortBy \in {"deadline", "salary_low"} THEN a.id - b.id
  ELSE b.id - a.id

Order(impl, sortBy, a, b) ==
  IF impl = "storage" THEN Compare(sortBy, a, b) ELSE QueryCompare(sortBy, a, b)

(* A stable sort: an element goes behind every element that does not
   compare greater than it. *)
InsertSorted(sorted, e, impl, sortBy) ==
  LET k == Cardinality({i \in 1..Len(sorted) :
                          Order(impl, sortBy, sorted[i], e) <= 0})
  IN SubSeq(sorted, 1, k) \o <<e>> \o SubSeq(sorted, k + 1, Len(sorted))

RECURSIVE Sort(_, _, _)
Sort(s, impl, sortBy) ==
  IF s = <<>> THEN <<>>
  ELSE InsertSorted(Sort(SubSeq(s, 1, Len(s) - 1), impl, sortBy), s[Len(s)],
                    impl, sortBy)

Matches(j, f, t) ==
  /\ j.status = "approved"
  /\ f.department # "any" => j.department = f.department
  /\ f.postedWithin # "all" => j.createdAt >= t - DaysAgo(f.postedWithin)

(* An orderBy leaves out the documents that lack the field. *)
HasOrderField(j, sortBy) ==
  CASE sortBy = "salary_high" -> j.maxSalary # {}
    [] sortBy = "salary_low" -> j.minSalary # {}
    [] OTHER -> TRUE

Ids(s) == [i \in 1..Len(s) |-> s[i].id]
Min(a, b) == IF a < b THEN a ELSE b

(* MemStorage.searchJobs *)
searchJobs(js, f, page, limit, t) ==
  LET allJobs == Sort(SelectSeq(js, LAMBDA j : Matches(j, f, t)), "storage",
                      f.sortBy)
      total == Len(allJobs)
      startIndex == (page - 1) * limit
      endIndex == startIndex + limit
  IN [items |-> Ids(SubSeq(allJobs, startIndex + 1, Min(endIndex, total))),
      total |-> total, page |-> page, limit |-> limit,
      hasMore |-> endIndex < total]

(* The Firestore client's searchJobs: the query is limited to the first
   `limit` documents; the page only travels into the response. *)
searchJobsQuery(js, f, page, limit, t) ==
  LET docs == Sort(SelectSeq(js, LAMBDA j : Matches(j, f, t)
                                            /\ HasOrderField(j, f.sortBy)),
                   "firestore", f.sortBy)
      found == SubSeq(docs, 1, Min(limit, Len(docs)))
  IN [items |-> Ids(found), total |-> Len(found), page |-> page,
      limit |-> limit, hasMore |-> Len(found) = limit]

(* GET /api/jobs: the route builds the filter object without postedWithin. *)
GetJobs(f, page, limit) ==
  /\ searchOut = NoSearch
  /\ searchOut' = [impl |-> "storage", filters |-> f,
                   out |-> searchJobs(jobs, Merge(f, [postedWithin |-> "all"]),
                                      page, limit, now)]
  /\ UNCHANGED <<nextId, now, claimRole, users, companies, jobs, applications,
                 auditLogs, req, sweep, resp>>

searchJobsClient(f, page, limit) ==
  /\ searchOut = NoSearch
  /\ searchOut' = [impl |-> "firestore", filters |-> f,
                   out |-> searchJobsQuery(jobs, f, page, limit, now)]
  /\ UNCHANGED <<nextId, now, claimRole, users, companies, jobs, applications,
                 auditLogs, req, sweep, resp>>


(* The response has gone out to the caller; the next search can start. *)
SearchRespond ==
  /\ searchOut # NoSearch
  /\ searchOut' = NoSearch
  /\ UNCHANGED <<nextId, now, claimRole, users, companies, jobs, applications,
                 auditLogs, req, sweep, resp>>

(* ------------------------------ deletion ------------------------------- *)
NotOwnedBy(u, c) == c.ownerUid # u
NotPostedBy(u, j) == j.posterUid # u
NotAppliedBy(u, a) == a.applicantUid # u
NotForJob(jid, a) == a.jobId # jid
NotJob(jid, j) == j.id # jid

(* MemStorage.deleteUser, and the admin deleteUser batch over Firestore:
   the profile, the user's companies, jobs and applications. *)
deleteUser(u) ==
  /\ users[u] # "absent"
  /\ users' = [users EXCEPT ![u] = "absent"]
  /\ companies' = SelectSeq(companies, LAMBDA c : NotOwnedBy(u, c))
  /\ jobs' = SelectSeq(jobs, LAMBDA j : NotPostedBy(u, j))
  /\ applications' = SelectSeq(applications, LAMBDA a : NotAppliedBy(u, a))
  /\ UNCHANGED <<nextId, now, claimRole, auditLogs, req, sweep, resp, searchOut>>

(* MemStorage.deleteJob *)
deleteJob(jid) ==
  /\ Has(jobs, jid)
  /\ jobs' = SelectSeq(jobs, LAMBDA j : NotJob(jid, j))
  /\ applications' = SelectSeq(applications, LAMBDA a : NotForJob(jid, a))
  /\ UNCHANGED <<nextId, now, claimRole, users, companies, auditLogs, req, sweep,
                 resp, searchOut>>

(* ------------------------------- time ---------------------------------- *)
Tick ==
  /\ now < MaxTime
  /\ now' = now + 1
  /\ UNCHANGED <<nextId, claimRole, users, companies, jobs, applications, auditLogs,
                 req, sweep, resp, searchOut>>


(* ----------------------- application submission ----------------------- *)
(* `${jobId}_${uid}`: ids hold no underscore, so the key names the pair. *)
DedupeKey(jid, uid) == <<jid, uid>>

createApplication(as, id, jid, uid) ==
  Append(as, [id |-> id, jobId |-> jid, applicantUid |-> uid,
              status |-> "submitted", dedupeKey |-> DedupeKey(jid, uid)])

getApplicationByDedupeKey(as, key) ==
  \E i \in 1..Len(as) : as[i].dedupeKey = key

Done(r, result) == [pc |-> "done", fam |-> r.fam, uid |-> r.uid,
                    jobId |-> r.jobId, late |-> r.late, result |-> result]

(* What the two handlers do up to and including the read of the job: the
   guards in front of the handler, storage.getJob / jobs.doc(jobId).get(),
   the status check and the deadline check.  late records whether the job
   read had lastDate < new Date(). *)
ApplyGuards(fam, p, ev) ==
  IF fam = "express" THEN Denied(p, ev, {"seeker"})
  ELSE IF ~ev \/ TokenRole(p) # "seeker" THEN "permission-denied"
  ELSE "next"

ApplyJobCheck(fam, jid) ==
  IF ~Has(jobs, jid)
    THEN IF fam = "express" THEN "400 Job not available for applications"
         ELSE "internal"
  ELSE IF Get(jobs, jid).status # "approved"
    THEN IF fam = "express" THEN "400 Job not available for applications"
         ELSE "internal"
  ELSE IF Get(jobs, jid).lastDate < now
    THEN IF fam = "express" THEN "400 Application deadline has passed"
         ELSE "internal"
  ELSE "next"

ApplyBegin(s, fam, p, ev, jid) ==
  LET g == ApplyGuards(fam, p, ev)
      c == ApplyJobCheck(fam, jid)
      r == [fam |-> fam, uid |-> p, jobId |-> jid,
            late |-> Has(jobs, jid) /\ Get(jobs, jid).lastDate < now]
  IN
  /\ req[s].pc = "idle"
  /\ req' = [req EXCEPT ![s] =
       IF g # "next" THEN Done([r EXCEPT !.late = FALSE], g)
       ELSE IF c # "next" THEN Done(r, c)
       ELSE Merge(r, [pc |-> "dedupe",
                      job |-> [applicationCount |-> Get(jobs, jid).applicationCount,
                               companyId |-> Get(jobs, jid).companyId]])]
  /\ UNCHANGED <<now, claimRole, users, companies, jobs, applications,
                 auditLogs, sweep, resp, searchOut, nextId>>

(* The duplicate check: getApplicationByDedupeKey, or the dedupeKey query. *)
ApplyDedupe(s) ==
  LET r == req[s] IN
  /\ r.pc = "dedupe"
  /\ req' = [req EXCEPT ![s] =
       IF getApplicationByDedupeKey(applications, DedupeKey(r.jobId, r.uid))
       THEN Done(r, IF r.fam = "express"
                    THEN "400 You have already applied to this job"
                    ELSE "internal")
       ELSE [r EXCEPT !.pc = "create"]]
  /\ UNCHANGED <<now, claimRole, users, companies, jobs, applications,
                 auditLogs, sweep, resp, searchOut, nextId>>

(* storage.createApplication / applications.add *)
ApplyCreate(s) ==
  LET r == req[s] IN
  /\ r.pc = "create"
  /\ nextId.app <= MaxApps
  /\ applications' = createApplication(applications, nextId.app, r.jobId, r.uid)
  /\ nextId' = [nextId EXCEPT !.app = @ + 1]
  /\ req' = [req EXCEPT ![s] = Merge(r, [pc |-> "count", appId |-> nextId.app])]
  /\ UNCHANGED <<now, claimRole, users, companies, jobs, auditLogs, sweep,
                 resp, searchOut>>

(* Express: updateJob with the count read at the start plus one.
   Function: FieldValue.increment(1); the update throws when the job
   document is gone. *)
CountExpress(js, jid, readCount) ==
  updateJob(js, jid, [applicationCount |-> readCount + 1])

CountFunction(js, jid) ==
  updateJob(js, jid, [applicationCount |-> Get(js, jid).applicationCount + 1])

ApplyCount(s) ==
  LET r == req[s] IN
  /\ r.pc = "count"
  /\ IF r.fam = "express"
     THEN /\ jobs' = CountExpress(jobs, r.jobId, r.job.applicationCount)
          /\ req' = [req EXCEPT ![s] = Done(r, "200")]
     ELSE IF ~Has(jobs, r.jobId)
     THEN /\ req' = [req EXCEPT ![s] = Done(r, "internal")]
          /\ UNCHANGED jobs
     ELSE /\ jobs' = CountFunction(jobs, r.jobId)
          /\ req' = [req EXCEPT ![s] = [r EXCEPT !.pc = "notify"]]
  /\ UNCHANGED <<now, claimRole, users, companies, applications, auditLogs,
                 sweep, resp, searchOut, nextId>>

(* applyToJob's tail: the applicant and company documents are read for the
   notification (a missing one throws on .displayName / .hrEmail), the mail
   is sent, the audit entry is written. *)
ApplyNotify(s) ==
  LET r == req[s] IN
  /\ r.pc = "notify"
  /\ IF users[r.uid] = "absent" \/ ~Has(companies, r.job.companyId)
     THEN /\ req' = [req EXCEPT ![s] = Done(r, "internal")]
          /\ UNCHANGED auditLogs
     ELSE /\ auditLogs' = createAuditLog(auditLogs,
               AuditEntry(r.uid, "application_submitted", "application", r.appId))
          /\ req' = [req EXCEPT ![s] = Done(r, "ok")]
  /\ UNCHANGED <<now, claimRole, users, companies, jobs, applications, sweep,
                 resp, searchOut, nextId>>

(* The response has been sent. *)
ApplyRespond(s) ==
  /\ req[s].pc = "done"
  /\ req' = [req EXCEPT ![s] = IdleReq]
  /\ UNCHANGED <<now, claimRole, users, companies, jobs, applications,
                 auditLogs, sweep, resp, searchOut, nextId>>

Families == {"express", "function"}

(* ---------------------- application status changes --------------------- *)
(* shared/schema.ts ApplicationStatus: every status the schema admits. *)
ApplicationStatus ==
  {"submitted", "reviewed", "shortlisted", "rejected", "offered", "withdrawn"}

validStatuses == {"reviewed", "shortlisted", "rejected", "offered"}

updateApplication(as, id, upd) ==
  [i \in 1..Len(as) |-> IF as[i].id = id THEN Merge(as[i], upd) ELSE as[i]]

(* The permission check: an admin, or an employer who posted the job the
   application is for. *)
MayUpdate(p, app) ==
  \/ TokenRole(p) = "admin"
  \/ /\ TokenRole(p) = "employer"
     /\ Has(jobs, app.jobId)
     /\ Get(jobs, app.jobId).posterUid = p

(* updateApplicationStatus (callable): the errors raised inside the try
   block all leave as 'internal'; after the update the job and the
   applicant are read for the mail (a missing job throws on .title when
   the applicant has an address), then the audit entry is written. *)
updateApplicationStatus(p, ev, aid, status) ==
  LET op == [op |-> "updateApplicationStatus"] IN
  /\ Len(auditLogs) < MaxReviewLog
  /\ IF ~ev
     THEN /\ resp' = Merge(op, [result |-> "unauthenticated"])
          /\ UNCHANGED <<applications, auditLogs>>
     ELSE IF status \notin validStatuses
     THEN /\ resp' = Merge(op, [result |-> "invalid-argument"])
          /\ UNCHANGED <<applications, auditLogs>>
     ELSE IF ~Has(applications, aid)
     THEN /\ resp' = Merge(op, [result |-> "internal"])
          /\ UNCHANGED <<applications, auditLogs>>
     ELSE IF ~MayUpdate(p, Get(applications, aid))
     THEN /\ resp' = Merge(op, [result |-> "internal"])
          /\ UNCHANGED <<applications, auditLogs>>
     ELSE /\ applications' = updateApplication(applications, aid,
                                               [status |-> status])
          /\ IF /\ users[Get(applications, aid).applicantUid] # "absent"
                /\ ~Has(jobs, Get(applications, aid).jobId)
             THEN /\ resp' = Merge(op, [result |-> "internal"])
                  /\ UNCHANGED auditLogs
             ELSE /\ auditLogs' = createAuditLog(auditLogs,
                       Merge(AuditEntry(p, "application_status_changed",
                                        "application", aid),
                             [metadata |->
                                [status |-> status,
                                 previousStatus |->
                                   Get(applications, aid).status]]))
                  /\ resp' = Merge(op, [result |-> "ok"])
  /\ UNCHANGED <<nextId, now, claimRole, users, companies, jobs, req, sweep,
                 searchOut>>

(* ======================= specifications ================================ *)
(* The workflow is checked in stages, each starting where the one before
   it can arrive: companies from the empty store, jobs under an approved
   company, applications against posted jobs, searches over posted jobs. *)

(* ---- companies: from the empty store ---------------------------------- *)
InitCompany ==
  /\ now = 0
  /\ claimRole = [u \in Users |-> "seeker"]
  /\ users = [u \in Users |-> "seeker"]
  /\ companies = <<>>
  /\ jobs = <<>>
  /\ applications = <<>>
  /\ auditLogs = <<>>
  /\ req = [s \in Slots |-> IdleReq]
  /\ sweep = IdleSweep
  /\ resp = NoResp
  /\ searchOut = NoSearch
  /\ nextId = [company |-> 1, job |-> 1, app |-> 1]

NextCompany ==
  \/ \E p \in Principals, ev \in BOOLEAN : PostCompanies(p, ev)
  \/ \E p \in Principals, ev \in BOOLEAN : requestEmployerUpgrade(p, ev)
  \/ \E p \in Principals, ev \in BOOLEAN, cid \in CompanyIds,
        st \in CompanyStatus : PatchCompanyStatus(p, ev, cid, st)
  \/ \E p \in Principals, uid \in Users, cid \in CompanyIds :
        approveEmployerUpgrade(p, uid, cid)
  \/ \E u \in Users : deleteUser(u)

SpecCompany == InitCompany /\ [][NextCompany]_vars

(* ---- jobs: u1 owns company 1, approved through approveEmployerUpgrade --- *)
InitJob ==
  /\ now = 0
  /\ claimRole = [u \in Users |-> IF u = "u1" THEN "employer" ELSE "seeker"]
  /\ users = [u \in Users |-> IF u = "u1" THEN "employer" ELSE "seeker"]
  /\ companies = <<[id |-> 1, ownerUid |-> "u1", status |-> "approved"]>>
  /\ jobs = <<>>
  /\ applications = <<>>
  /\ auditLogs = <<AuditEntry(Admin, "company_approved", "company", 1)>>
  /\ req = [s \in Slots |-> IdleReq]
  /\ sweep = IdleSweep
  /\ resp = [op |-> "approveEmployerUpgrade", result |-> "ok"]
  /\ searchOut = NoSearch
  /\ nextId = [company |-> 2, job |-> 1, app |-> 1]

NextJob ==
  \/ \E p \in Principals, ev \in BOOLEAN, cid \in CompanyIds, d \in Times :
        PostJobs(p, ev, cid, d)
  \/ \E p \in Principals, ev \in BOOLEAN, cid \in CompanyIds, d \in Times :
        createJobFn(p, ev, cid, d)
  \/ \E p \in Principals, ev \in BOOLEAN, jid \in JobIds,
        st \in JobStatus : PatchJobStatus(p, ev, jid, st)
  \/ \E p \in Principals, jid \in JobIds : approveJob(p, jid)
  \/ expireJobsQuery
  \/ expireJobsCommit
  \/ \E jid \in JobIds : deleteJob(jid)
  \/ \E u \in Users : deleteUser(u)
  \/ Tick

SpecJob == InitJob /\ [][NextJob]_vars

(* ---- applications: u1 has posted job 1 through POST /api/jobs, the admin
   has set its status through PATCH /api/admin/jobs/:id/status (or left it
   pending), the sweep has expired it if it was approved and overdue ------ *)
PostedJob(id, lastDate, status) ==
  Merge(createJob(<<>>, id, JobInput(1, lastDate), "u1", 0)[1],
        IF status = "pending" THEN [status |-> status]
        ELSE IF status \in {"approved", "expired"}
             THEN [status |-> status, approvedBy |-> Admin]
             ELSE [status |-> status])

StatusAudit(id, status) ==
  IF status = "pending" THEN <<>>
  ELSE <<AuditEntry(Admin, IF status \in {"approved", "expired"}
                           THEN "job_approved" ELSE "job_rejected", "job", id)>>

InitApply ==
  /\ claimRole = [u \in Users |-> IF u = "u1" THEN "employer" ELSE "seeker"]
  /\ users = [u \in Users |-> IF u = "u1" THEN "employer" ELSE "seeker"]
  /\ companies = <<[id |-> 1, ownerUid |-> "u1", status |-> "approved"]>>
  /\ \E t \in Times, st \in JobStatus, d \in Times :
       /\ st = "expired" => d < t
       /\ now = t
       /\ jobs = <<PostedJob(1, d, st)>>
       /\ auditLogs = <<AuditEntry(Admin, "company_approved", "company", 1)>>
                      \o StatusAudit(1, st)
  /\ applications = <<>>
  /\ req = [s \in Slots |-> IdleReq]
  /\ sweep = IdleSweep
  /\ resp = NoResp
  /\ searchOut = NoSearch
  /\ nextId = [company |-> 2, job |-> 2, app |-> 1]

NextApply ==
  \/ \E s \in Slots, fam \in Families, p \in Users, ev \in BOOLEAN,
        jid \in JobIds : ApplyBegin(s, fam, p, ev, jid)
  \/ \E s \in Slots : ApplyDedupe(s)
  \/ \E s \in Slots : ApplyCreate(s)
  \/ \E s \in Slots : ApplyCount(s)
  \/ \E s \in Slots : ApplyNotify(s)
  \/ \E s \in Slots : ApplyRespond(s)
  \/ \E u \in Users : deleteUser(u)
  \/ \E jid \in JobIds : deleteJob(jid)
  \/ Tick

SpecApply == InitApply /\ [][NextApply]_vars

(* ---- search: u1 has posted up to MaxJobs jobs for company 1 and the admin
   has approved some of them; document ids are opaque, so their order is
   unrelated to the order of creation --------------------------------------- *)
StoredJob(id, department, salary, lastDate, createdAt, status) ==
  Merge(createJob(<<>>, id, JobFields(1, lastDate, department, salary), "u1",
                  createdAt)[1],
        IF status = "approved" THEN [status |-> status, approvedBy |-> Admin]
        ELSE [status |-> status])

JobDocs ==
  {StoredJob(id, dep, sal, d, c, st) :
     id \in JobIds, dep \in Departments, sal \in {{}, {1}}, d \in Times,
     c \in Times, st \in {"pending", "approved"}}

RECURSIVE StatusAudits(_)
StatusAudits(js) ==
  IF js = <<>> THEN <<>>
  ELSE StatusAudit(js[1].id, js[1].status) \o StatusAudits(Tail(js))

InitSearch ==
  /\ now = MaxTime + 1
  /\ claimRole = [u \in Users |-> IF u = "u1" THEN "employer" ELSE "seeker"]
  /\ users = [u \in Users |-> IF u = "u1" THEN "employer" ELSE "seeker"]
  /\ companies = <<[id |-> 1, ownerUid |-> "u1", status |-> "approved"]>>
  /\ \E n \in 0..MaxJobs : \E js \in [1..n -> JobDocs] :
       /\ \A i, k \in 1..n : i < k => /\ js[i].id # js[k].id
                                      /\ js[i].createdAt <= js[k].createdAt
       /\ jobs = js
       /\ auditLogs = <<AuditEntry(Admin, "company_approved", "company", 1)>>
                      \o StatusAudits(js)
  /\ applications = <<>>
  /\ req = [s \in Slots |-> IdleReq]
  /\ sweep = IdleSweep
  /\ resp = NoResp
  /\ searchOut = NoSearch
  /\ nextId = [company |-> 2, job |-> MaxJobs + 1, app |-> 1]

NextSearch ==
  \/ \E f \in Filters, page \in 1..MaxPage, limit \in 1..MaxLimit :
       GetJobs(f, page, limit)
  \/ \E f \in Filters, page \in 1..MaxPage, limit \in 1..MaxLimit :
       searchJobsClient(f, page, limit)
  \/ SearchRespond

SpecSearch == InitSearch /\ [][NextSearch]_vars


(* ---- job creation: u1 owns the approved company 1; u2 owns company 2,
   which the admin has approved, rejected or left pending, and u2 has been
   made employer or not ---------------------------------------------------- *)
SecondCompanyAudit(status, role) ==
  CASE status = "approved" -> <<AuditEntry(Admin, "company_approved", "company", 2)>>
    [] status = "rejected" /\ role = "seeker" ->
         <<AuditEntry(Admin, "company_rejected", "company", 2)>>
    [] status = "rejected" /\ role = "employer" ->
         <<AuditEntry(Admin, "company_approved", "company", 2),
           AuditEntry(Admin, "company_rejected", "company", 2)>>
    [] status = "pending" /\ role = "employer" ->
         <<AuditEntry(Admin, "company_approved", "company", 1)>>
    [] OTHER -> <<>>

InitPost ==
  /\ now = 0
  /\ \E st \in CompanyStatus, role \in {"seeker", "employer"} :
       /\ claimRole = [u \in Users |-> IF u = "u1" THEN "employer" ELSE role]
       /\ users = [u \in Users |-> IF u = "u1" THEN "employer" ELSE role]
       /\ companies = <<[id |-> 1, ownerUid |-> "u1", status |-> "approved"],
                        [id |-> 2, ownerUid |-> "u2", status |-> st]>>
       /\ auditLogs = SecondCompanyAudit(st, role)
  /\ jobs = <<>>
  /\ applications = <<>>
  /\ req = [s \in Slots |-> IdleReq]
  /\ sweep = IdleSweep
  /\ resp = NoResp
  /\ searchOut = NoSearch
  /\ nextId = [company |-> 3, job |-> 1, app |-> 1]

(* The company a body names: a stored one, or an id nothing is stored
   under. *)
PostedFor == CompanyIds \cup {MaxCompanies + 1}

NextPost ==
  \/ \E p \in Principals, ev \in BOOLEAN, cid \in PostedFor, d \in Times,
        K \in ExtraKeys : PostJobsBody(p, ev, JobBody(cid, d, K))
  \/ \E p \in Principals, ev \in BOOLEAN, cid \in PostedFor, d \in Times,
        K \in ExtraKeys : createJobData(p, ev, JobBody(cid, d, K))
  \/ \E jid \in JobIds : GetJob(jid)
  \/ \E jid \in JobIds : getById(jid)

SpecPost == InitPost /\ [][NextPost]_vars

(* ---- application review: u1 owns the approved company 1 and has posted
   job 1, which the admin has approved; u2 has applied to it through the
   route or the function, and may since have been made employer ------------ *)
InitReview ==
  /\ now = 0
  /\ companies = <<[id |-> 1, ownerUid |-> "u1", status |-> "approved"]>>
  /\ \E d \in Times :
       jobs = <<Merge(PostedJob(1, d, "approved"), [applicationCount |-> 1])>>
  /\ applications = createApplication(<<>>, 1, 1, "u2")
  /\ \E fam \in Families, role \in {"seeker", "employer"} :
       /\ claimRole = [u \in Users |-> IF u = "u1" THEN "employer" ELSE role]
       /\ users = [u \in Users |-> IF u = "u1" THEN "employer" ELSE role]
       /\ auditLogs =
            <<AuditEntry(Admin, "company_approved", "company", 1),
              AuditEntry(Admin, "job_approved", "job", 1)>>
            \o (IF fam = "function"
                THEN <<AuditEntry("u2", "application_submitted",
                                  "application", 1)>>
                ELSE <<>>)
            \o (IF role = "employer"
                THEN <<AuditEntry(Admin, "company_approved", "company", 1)>>
                ELSE <<>>)
  /\ req = [s \in Slots |-> IdleReq]
  /\ sweep = IdleSweep
  /\ resp = NoResp
  /\ searchOut = NoSearch
  /\ nextId = [company |-> 2, job |-> 2, app |-> 2]

(* The target statuses a caller can send: the four the function accepts
   and the two others of the enum. *)
StatusInputs == validStatuses \cup {"withdrawn", "submitted"}

NextReview ==
  \/ \E p \in Principals, ev \in BOOLEAN, aid \in 1..MaxApps,
        st \in StatusInputs : updateApplicationStatus(p, ev, aid, st)
  \/ \E u \in Users : deleteUser(u)
  \/ \E jid \in JobIds : deleteJob(jid)

SpecReview == InitReview /\ [][NextReview]_vars

(* ---- sign-up: the client's signUp and the onCreate trigger -------------- *)
(* Slot 1 holds the client's signUp call, slot 2 the onAuthUserCreate
   invocation Firebase Auth starts for the new account; the two run side by
   side. *)
SignUpRoles == {"seeker", "employer"}

(* signUp(email, password, displayName, role): createUserWithEmailAndPassword
   creates the account, which starts the trigger. *)
signUp(u, role) ==
  /\ users[u] = "absent"
  /\ \A s \in Slots : req[s].pc = "idle"
  /\ req' = [req EXCEPT ![1] = [pc |-> "getDoc", uid |-> u, role |-> role],
                        ![2] = [pc |-> "onCreate", uid |-> u]]
  /\ UNCHANGED <<now, claimRole, users, companies, jobs, applications,
                 auditLogs, sweep, resp, searchOut, nextId>>

(* createUserProfile: getDoc(userDocRef) *)
createUserProfileGet ==
  LET r == req[1] IN
  /\ r.pc = "getDoc"
  /\ req' = [req EXCEPT ![1] =
       IF users[r.uid] # "absent" THEN [r EXCEPT !.pc = "done"]
       ELSE [r EXCEPT !.pc = "setDoc"]]
  /\ UNCHANGED <<now, claimRole, users, companies, jobs, applications,
                 auditLogs, sweep, resp, searchOut, nextId>>

(* createUserProfile: setDoc with role: additionalData.role || 'seeker' *)
createUserProfileSet ==
  LET r == req[1] IN
  /\ r.pc = "setDoc"
  /\ users' = [users EXCEPT ![r.uid] = r.role]
  /\ req' = [req EXCEPT ![1] = [r EXCEPT !.pc = "done"]]
  /\ UNCHANGED <<now, claimRole, companies, jobs, applications, auditLogs,
                 sweep, resp, searchOut, nextId>>

(* signUp has returned. *)
SignUpRespond ==
  /\ req[1].pc = "done"
  /\ req' = [req EXCEPT ![1] = IdleReq]
  /\ UNCHANGED <<now, claimRole, users, companies, jobs, applications,
                 auditLogs, sweep, resp, searchOut, nextId>>

(* onAuthUserCreate: users.doc(uid).set({..., role: 'seeker'}) replaces
   whatever the document held. *)
onAuthUserCreate ==
  LET r == req[2] IN
  /\ r.pc = "onCreate"
  /\ users' = [users EXCEPT ![r.uid] = "seeker"]
  /\ req' = [req EXCEPT ![2] = IdleReq]
  /\ UNCHANGED <<now, claimRole, companies, jobs, applications, auditLogs,
                 sweep, resp, searchOut, nextId>>

(* Nobody has signed up yet: no profile, no role claim, an empty store. *)
InitSignUp ==
  /\ now = 0
  /\ claimRole = [u \in Users |-> NoOne]
  /\ users = [u \in Users |-> "absent"]
  /\ companies = <<>>
  /\ jobs = <<>>
  /\ applications = <<>>
  /\ auditLogs = <<>>
  /\ req = [s \in Slots |-> IdleReq]
  /\ sweep = IdleSweep
  /\ resp = NoResp
  /\ searchOut = NoSearch
  /\ nextId = [company |-> 1, job |-> 1, app |-> 1]

NextSignUp ==
  \/ \E u \in Users, role \in SignUpRoles : signUp(u, role)
  \/ createUserProfileGet
  \/ createUserProfileSet
  \/ SignUpRespond
  \/ onAuthUserCreate
  \/ \E p \in Users, ev \in BOOLEAN : PostCompanies(p, ev)
  \/ \E p \in Principals, uid \in Users, cid \in CompanyIds :
        approveEmployerUpgrade(p, uid, cid)

SpecSignUp == InitSignUp /\ [][NextSignUp]_vars

(* ---- company update: PUT /api/companies/:id ---------------------------- *)
(* The fields of companySchema the model carries. *)
companySchema == {"name", "phone", "address"}

(* No restriction after approval: every field of the schema stays
   editable. *)
schemaFields == {"name", "phone", "address"}

allowedFields == {"phone", "address"}

(* What a caller can put into the body: new values for the schema's fields,
   and values for the two fields the route never reads. *)
CompanyEdit ==
  [name |-> "n1", phone |-> "p1", address |-> "a1", status |-> "approved",
   ownerUid |-> "u2"]
EditKeys ==
  {{}, {"phone"}, {"status", "ownerUid"},
   {"name", "phone", "address", "status", "ownerUid"}}
CompanyBody(K) == [k \in K |-> CompanyEdit[k]]

(* companySchema.partial().parse drops the keys the schema does not declare;
   for an approved company the reduce keeps the allowed fields only;
   MemStorage.updateCompany stamps updatedAt. *)
PutCompanies(p, ev, cid, body) ==
  LET d == Denied(p, ev, AllRoles)
      validatedData == Parse(companySchema, body)
      updateData == Parse(allowedFields, validatedData)
      op == [op |-> "PUT /api/companies/:id", id |-> cid]
  IN
  /\ IF d # "next"
     THEN /\ resp' = Merge(op, [result |-> d])
          /\ UNCHANGED companies
     ELSE IF ~Has(companies, cid) \/ Get(companies, cid).ownerUid # p
     THEN /\ resp' = Merge(op, [result |-> "403 Not authorized"])
          /\ UNCHANGED companies
     ELSE /\ companies' = updateCompany(companies, cid,
               Merge(IF Get(companies, cid).status = "approved"
                     THEN updateData ELSE validatedData,
                     [updatedAt |-> now]))
          /\ resp' = Merge(op, [result |-> "200"])
  /\ UNCHANGED <<nextId, now, claimRole, users, jobs, applications, auditLogs,
                 req, sweep, searchOut>>

(* u1 owns company 1, in any status, and u2 the pending company 2; both
   carry the fields their owners filled in when creating them at time 0. *)
CompanyAudit(id, status) ==
  IF status = "pending" THEN <<>>
  ELSE <<AuditEntry(Admin, "company_" \o status, "company", id)>>

InitUpdate ==
  /\ now = MaxTime
  /\ \E s1 \in CompanyStatus :
       /\ users = [u \in Users |-> IF u = "u1" /\ s1 = "approved"
                                   THEN "employer" ELSE "seeker"]
       /\ companies =
            <<[id |-> 1, ownerUid |-> "u1", status |-> s1, name |-> "n0",
               phone |-> "p0", address |-> "a0", updatedAt |-> 0],
              [id |-> 2, ownerUid |-> "u2", status |-> "pending", name |-> "n0",
               phone |-> "p0", address |-> "a0", updatedAt |-> 0]>>
       /\ auditLogs = CompanyAudit(1, s1)
  /\ claimRole = users
  /\ jobs = <<>>
  /\ applications = <<>>
  /\ req = [s \in Slots |-> IdleReq]
  /\ sweep = IdleSweep
  /\ resp = NoResp
  /\ searchOut = NoSearch
  /\ nextId = [company |-> 3, job |-> 1, app |-> 1]

NextUpdate ==
  \/ \E p \in Principals, ev \in BOOLEAN, cid \in PostedFor, K \in EditKeys :
        PutCompanies(p, ev, cid, CompanyBody(K))

SpecUpdate == InitUpdate /\ [][NextUpdate]_vars

(* ---- submission window: one submission for the approved job 1 beside the
   admin's rejection of the job and the expiry sweep ---------------------- *)
InitWindow ==
  /\ claimRole = [u \in Users |-> IF u = "u1" THEN "employer" ELSE "seeker"]
  /\ users = claimRole
  /\ companies = <<[id |-> 1, ownerUid |-> "u1", status |-> "approved"]>>
  /\ now = 0
  /\ \E d \in Times : jobs = <<PostedJob(1, d, "approved")>>
  /\ auditLogs = <<AuditEntry(Admin, "company_approved", "company", 1)>>
                 \o StatusAudit(1, "approved")
  /\ applications = <<>>
  /\ req = [s \in Slots |-> IdleReq]
  /\ sweep = IdleSweep
  /\ resp = NoResp
  /\ searchOut = NoSearch
  /\ nextId = [company |-> 2, job |-> 2, app |-> 1]

NextWindow ==
  \/ \E fam \in Families, p \in Users, ev \in BOOLEAN, jid \in JobIds :
        ApplyBegin(1, fam, p, ev, jid)
  \/ ApplyDedupe(1)
  \/ ApplyCreate(1)
  \/ ApplyCount(1)
  \/ ApplyNotify(1)
  \/ ApplyRespond(1)
  \/ \E jid \in JobIds, st \in {"approved", "rejected"} :
        PatchJobStatus(Admin, TRUE, jid, st)
  \/ expireJobsQuery
  \/ expireJobsCommit
  \/ Tick

SpecWindow == InitWindow /\ [][NextWindow]_vars

(* ---- status changes step by step: two calls of updateApplicationStatus
   side by side, each at one of its awaits -------------------------------- *)
(* applications.doc(applicationId).get() and the permission check, for a
   verified caller and a valid target status. *)
updateStatusGet(s, p, aid, status) ==
  /\ req[s].pc = "idle"
  /\ req' = [req EXCEPT ![s] =
       IF ~Has(applications, aid) \/ ~MayUpdate(p, Get(applications, aid))
       THEN [pc |-> "done", result |-> "internal"]
       ELSE [pc |-> "update", uid |-> p, applicationId |-> aid,
             status |-> status,
             applicationData |-> Get(applications, aid)]]
  /\ UNCHANGED <<now, claimRole, users, companies, jobs, applications,
                 auditLogs, sweep, resp, searchOut, nextId>>

(* applications.doc(applicationId).update({status, notes, updatedAt}) *)
updateStatusUpdate(s) ==
  LET r == req[s] IN
  /\ r.pc = "update"
  /\ IF ~Has(applications, r.applicationId)
     THEN /\ req' = [req EXCEPT ![s] = [pc |-> "done", result |-> "internal"]]
          /\ UNCHANGED applications
     ELSE /\ applications' = updateApplication(applications, r.applicationId,
                                               [status |-> r.status])
          /\ req' = [req EXCEPT ![s] = [r EXCEPT !.pc = "audit"]]
  /\ UNCHANGED <<now, claimRole, users, companies, jobs, auditLogs, sweep,
                 resp, searchOut, nextId>>

(* The reads for the mail, the mail, and createAuditLog with
   previousStatus: applicationData.status, the status read at the start. *)
updateStatusAudit(s) ==
  LET r == req[s] IN
  /\ r.pc = "audit"
  /\ Len(auditLogs) < MaxReviewLog
  /\ IF /\ users[r.applicationData.applicantUid] # "absent"
        /\ ~Has(jobs, r.applicationData.jobId)
     THEN /\ req' = [req EXCEPT ![s] = [pc |-> "done", result |-> "internal"]]
          /\ UNCHANGED auditLogs
     ELSE /\ auditLogs' = createAuditLog(auditLogs,
               Merge(AuditEntry(r.uid, "application_status_changed",
                                "application", r.applicationId),
                     [metadata |->
                        [status |-> r.status,
                         previousStatus |-> r.applicationData.status]]))
          /\ req' = [req EXCEPT ![s] = [pc |-> "done", result |-> "ok"]]
  /\ UNCHANGED <<now, claimRole, users, companies, jobs, applications, sweep,
                 resp, searchOut, nextId>>

(* The call has returned. *)
updateStatusReturn(s) ==
  /\ req[s].pc = "done"
  /\ req' = [req EXCEPT ![s] = IdleReq]
  /\ UNCHANGED <<now, claimRole, users, companies, jobs, applications,
                 auditLogs, sweep, resp, searchOut, nextId>>

ReviewTargets == {"reviewed", "shortlisted"}

NextReviewSteps ==
  \/ \E s \in Slots, p \in Principals, aid \in 1..MaxApps,
        st \in ReviewTargets : updateStatusGet(s, p, aid, st)
  \/ \E s \in Slots : updateStatusUpdate(s)
  \/ \E s \in Slots : updateStatusAudit(s)
  \/ \E s \in Slots : updateStatusReturn(s)

SpecReviewSteps == InitReview /\ [][NextReviewSteps]_vars

(* ---- access: every handler that creates a Company, a Job or an
   Application or changes an Application's status, against a posted job --- *)
InitAccess ==
  /\ claimRole = [u \in Users |-> IF u = "u1" THEN "employer" ELSE "seeker"]
  /\ users = claimRole
  /\ companies = <<[id |-> 1, ownerUid |-> "u1", status |-> "approved"]>>
  /\ now = 0
  /\ jobs = <<PostedJob(1, MaxTime, "approved")>>
  /\ auditLogs = <<AuditEntry(Admin, "company_approved", "company", 1)>>
                 \o StatusAudit(1, "approved")
  /\ applications = <<>>
  /\ req = [s \in Slots |-> IdleReq]
  /\ sweep = IdleSweep
  /\ resp = NoResp
  /\ searchOut = NoSearch
  /\ nextId = [company |-> 2, job |-> 2, app |-> 1]

ReviewInputs == {"reviewed", "withdrawn"}

NextAccess ==
  \/ \E p \in Principals, ev \in BOOLEAN : PostCompanies(p, ev)
  \/ \E p \in Principals, ev \in BOOLEAN : requestEmployerUpgrade(p, ev)
  \/ \E p \in Principals, ev \in BOOLEAN, cid \in CompanyIds :
        PostJobs(p, ev, cid, MaxTime)
  \/ \E p \in Principals, ev \in BOOLEAN, cid \in CompanyIds :
        createJobFn(p, ev, cid, MaxTime)
  \/ \E fam \in Families, p \in Users, ev \in BOOLEAN, jid \in JobIds :
        ApplyBegin(1, fam, p, ev, jid)
  \/ ApplyDedupe(1)
  \/ ApplyCreate(1)
  \/ ApplyCount(1)
  \/ ApplyNotify(1)
  \/ ApplyRespond(1)
  \/ \E p \in Principals, ev \in BOOLEAN, aid \in 1..MaxApps,
        st \in ReviewInputs :
        updateApplicationStatus(p, ev, aid, st)

SpecAccess == InitAccess /\ [][NextAccess]_vars

(* ---- moderation: the four handlers that set a Company's or a Job's status,
   against one Company and one Job in any status; u2's token carries the
   seeker claim or no role claim at all ----------------------------------- *)
InitModerate ==
  /\ \E cst \in CompanyStatus, jst \in {"pending", "approved", "rejected"} :
       /\ users = [u \in Users |-> IF u = "u1" /\ cst = "approved"
                                   THEN "employer" ELSE "seeker"]
       /\ \E c2 \in {"seeker", NoOne} :
            claimRole = [users EXCEPT !["u2"] = c2]
       /\ companies = <<[id |-> 1, ownerUid |-> "u1", status |-> cst]>>
       /\ jobs = IF cst = "approved" THEN <<PostedJob(1, MaxTime, jst)>>
                 ELSE <<>>
       /\ jst # "pending" => cst = "approved"
       /\ auditLogs = (IF cst = "pending" THEN <<>>
                       ELSE <<AuditEntry(Admin, "company_" \o cst, "company",
                                         1)>>)
                      \o (IF cst = "approved" THEN StatusAudit(1, jst)
                          ELSE <<>>)
       /\ nextId = [company |-> 2,
                    job |-> IF cst = "approved" THEN 2 ELSE 1, app |-> 1]
  /\ now = 0
  /\ applications = <<>>
  /\ req = [s \in Slots |-> IdleReq]
  /\ sweep = IdleSweep
  /\ resp = NoResp
  /\ searchOut = NoSearch

NextModerate ==
  \/ \E p \in Principals, ev \in BOOLEAN, cid \in CompanyIds,
        st \in {"approved", "rejected"} : PatchCompanyStatus(p, ev, cid, st)
  \/ \E p \in Principals, uid \in Users, cid \in CompanyIds :
        approveEmployerUpgrade(p, uid, cid)
  \/ \E p \in Principals, ev \in BOOLEAN, jid \in JobIds,
        st \in {"approved", "rejected"} : PatchJobStatus(p, ev, jid, st)
  \/ \E p \in Principals, jid \in JobIds : approveJob(p, jid)
  \/ \E p \in Principals, ev \in BOOLEAN : PostCompanies(p, ev)

SpecModerate == InitModerate /\ [][NextModerate]_vars

(* ============================ properties =============================== *)
(* The kind of the error taxonomy a handler's outcome falls under. *)
ErrorKind(result) ==
  CASE result \in {"400 Job not available for applications",
                   "400 Application deadline has passed"} -> "PreconditionFailed"
    [] result = "400 You have already applied to this job" -> "AlreadyExists"
    [] result = "403 Email verification required" -> "EmailNotVerified"
    [] result \in {"403 Insufficient permissions", "permission-denied"}
         -> "PermissionDenied"
    [] result = "internal" -> "Internal"
    [] result = "unauthenticated" -> "Unauthenticated"
    [] result = "invalid-argument" -> "InvalidArgument"
    [] OTHER -> "none"

Quiescent == \A s \in Slots : req[s].pc \in {"idle", "done"}

CountOf(jid) ==
  Cardinality({k \in 1..Len(applications) : applications[k].jobId = jid})

(* C1: no two distinct Application records carry the same dedupeKey, also
   when the same seeker submits for the same job twice at the same time. *)
C1_UniqueDedupeKey ==
  \A i, k \in 1..Len(applications) :
    i # k => applications[i].dedupeKey # applications[k].dedupeKey

(* C2: a Job's applicationCount equals the number of Application records
   stored for that Job (read in the states where no submission is half
   way through its writes). *)
C2_CountMatchesApplications ==
  Quiescent => \A i \in 1..Len(jobs) :
                 jobs[i].applicationCount = CountOf(jobs[i].id)

JobTransitions == {<<"pending", "approved">>, <<"pending", "rejected">>,
                   <<"approved", "expired">>}

(* C3: a Job's status changes only pending -> approved, pending -> rejected
   or approved -> expired. *)
C3_JobStatusTransitions ==
  [][\A id \in JobIds :
       (Has(jobs, id) /\ Has(jobs', id)
        /\ Get(jobs, id).status # Get(jobs', id).status)
       => <<Get(jobs, id).status, Get(jobs', id).status>> \in JobTransitions]_vars

CompanyTransitions == {<<"pending", "approved">>, <<"pending", "rejected">>}

(* C4: a Company's status changes only pending -> approved or
   pending -> rejected; an approved or rejected Company keeps its status. *)
C4_CompanyStatusTransitions ==
  [][\A id \in CompanyIds :
       (Has(companies, id) /\ Has(companies', id)
        /\ Get(companies, id).status # Get(companies', id).status)
       => <<Get(companies, id).status, Get(companies', id).status>>
            \in CompanyTransitions]_vars

(* C5: a verified seeker's submission against a Job whose lastDate lies
   before the time of the submission is answered with a precondition
   error, whatever the Job's status, and writes no Application and no
   counter. *)
C5_LateSubmissionRefused ==
  [][\A s \in Slots :
       (req[s].pc = "idle" /\ req'[s].pc # "idle" /\ req'[s].late)
       => /\ req'[s].pc = "done"
          /\ ErrorKind(req'[s].result) = "PreconditionFailed"
          /\ applications' = applications
          /\ jobs' = jobs]_vars

(* C6: a submission by a seeker who already has an Application for the Job
   is answered with AlreadyExists, and leaves the applications, the Job's
   applicationCount and the audit log as they were. *)
C6_DuplicateIsAlreadyExists ==
  [][\A s \in Slots :
       (/\ req[s].pc = "dedupe"
        /\ req'[s] # req[s]
        /\ getApplicationByDedupeKey(applications,
                                     DedupeKey(req[s].jobId, req[s].uid)))
       => /\ req'[s].pc = "done"
          /\ ErrorKind(req'[s].result) = "AlreadyExists"
          /\ applications' = applications
          /\ jobs' = jobs
          /\ auditLogs' = auditLogs]_vars

(* C7: the step that takes a Company from pending to approved sets its
   owner's role, and no other user's, to employer; and every user whose
   role is employer owns an approved Company. *)
C7_ApprovalRaisesOwner ==
  /\ [][\A id \in CompanyIds :
          (/\ Has(companies, id) /\ Has(companies', id)
           /\ Get(companies, id).status = "pending"
           /\ Get(companies', id).status = "approved")
          => /\ users'[Get(companies, id).ownerUid] = "employer"
             /\ \A u \in Users \ {Get(companies, id).ownerUid} :
                  users'[u] = users[u]]_vars
  /\ [](\A u \in Users :
          users[u] = "employer"
          => \E i \in 1..Len(companies) : /\ companies[i].ownerUid = u
                                          /\ companies[i].status = "approved")

Returned(js, t) ==
  UNION {{searchJobs(js, f, 1, Len(js) + 1, t).items[i] :
            i \in 1..Len(searchJobs(js, f, 1, Len(js) + 1, t).items)} :
         f \in Filters}
  \cup
  UNION {{searchJobsQuery(js, f, 1, Len(js) + 1, t).items[i] :
            i \in 1..Len(searchJobsQuery(js, f, 1, Len(js) + 1, t).items)} :
         f \in Filters}

(* C8: when a run of the sweep has committed, every Job its query found
   (approved, lastDate before the sweep's time) that is still stored has
   status expired, and no search returns it. *)
C8_SweepExpiresOverdueJobs ==
  [][(sweep.pc = "commit" /\ sweep'.pc = "idle")
     => \A id \in sweep.docs :
          Has(jobs', id) => /\ Get(jobs', id).status = "expired"
                            /\ id \notin Returned(jobs', now')]_vars

(* The position a Job takes in the requested order: smaller goes first. *)
Rank(sortBy, j) ==
  CASE sortBy = "deadline" -> j.lastDate
    [] sortBy = "salary_high" -> 0 - OrZero(j.maxSalary)
    [] sortBy = "salary_low" -> OrZero(j.minSalary)
    [] OTHER -> 0 - j.createdAt

CreatedAs(id) == CHOOSE i \in 1..Len(jobs) : jobs[i].id = id

(* C9: a search returns only approved Jobs that satisfy every filter the
   caller supplied, in the order of the requested sort key, Jobs of equal
   key in the order of their creation. *)
C9_SearchFiltersAndOrders ==
  searchOut # NoSearch =>
    LET f == searchOut.filters
        items == searchOut.out.items
    IN /\ \A i \in 1..Len(items) :
            /\ Has(jobs, items[i])
            /\ Get(jobs, items[i]).status = "approved"
            /\ f.department # "any"
                 => Get(jobs, items[i]).department = f.department
            /\ f.postedWithin # "all"
                 => Get(jobs, items[i]).createdAt
                      >= now - DaysAgo(f.postedWithin)
       /\ \A i, k \in 1..Len(items) :
            i < k =>
              \/ Rank(f.sortBy, Get(jobs, items[i]))
                   < Rank(f.sortBy, Get(jobs, items[k]))
              \/ /\ Rank(f.sortBy, Get(jobs, items[i]))
                      = Rank(f.sortBy, Get(jobs, items[k]))
                 /\ CreatedAs(items[i]) < CreatedAs(items[k])

(* The whole ordered result of the search that was asked for: the same
   search with one page that takes everything. *)
FullResult ==
  IF searchOut.impl = "storage"
  THEN searchJobs(jobs, Merge(searchOut.filters, [postedWithin |-> "all"]), 1,
                  Len(jobs) + 1, now).items
  ELSE searchJobsQuery(jobs, searchOut.filters, 1, Len(jobs) + 1, now).items

(* C10: page k of limit L holds exactly the items at positions
   (k-1)*L .. k*L-1 of the full ordered result (counted from 0), so pages
   are disjoint, hold at most L items and concatenate to the full result. *)
C10_PagesPartitionResult ==
  searchOut # NoSearch =>
    LET k == searchOut.out.page
        L == searchOut.out.limit
    IN searchOut.out.items
         = SubSeq(FullResult, (k - 1) * L + 1, Min(k * L, Len(FullResult)))

StoreSet == {"status", "viewCount", "applicationCount"}
Created(r) ==
  /\ r.op \in {"POST /api/jobs", "createJob"}
  /\ r.result \in {"200", "ok"}
ReadOf(r, id) ==
  /\ r.op \in {"GET /api/jobs/:id", "jobService.getById"}
  /\ r.result \in {"200", "found"}
  /\ r.job.id = id

(* C11: the first read of a job after its creation returns a record whose
   user-supplied fields equal those of the creation's input and whose
   status is pending, viewCount 0 and applicationCount 0, whatever the
   caller put into the input for these three. *)
C11_CreateJobRoundTrip ==
  [][(Created(resp) /\ ReadOf(resp', resp.id))
     => /\ \A k \in DOMAIN resp.body \ StoreSet :
             k \in DOMAIN resp'.job /\ resp'.job[k] = resp.body[k]
        /\ resp'.job.status = "pending"
        /\ resp'.job.viewCount = 0
        /\ resp'.job.applicationCount = 0]_vars

(* C12: no two Companies have the same ownerUid: a creation by a user who
   already owns a Company stores nothing. *)
C12_OneCompanyPerOwner ==
  \A i, k \in 1..Len(companies) :
    i # k => companies[i].ownerUid # companies[k].ownerUid

(* What the access policy allows for an application status change. *)
PolicyAllowsUpdate(p, aid) ==
  /\ Has(applications, aid)
  /\ \/ TokenRole(p) = "admin"
     \/ /\ TokenRole(p) = "employer"
        /\ \E i \in 1..Len(jobs) :
             /\ jobs[i].id = Get(applications, aid).jobId
             /\ jobs[i].posterUid = p

(* C17: a step of updateApplicationStatus changes an Application only for
   an admin or for the employer who posted the Application's Job; for any
   other verified subject naming a stored Application and a valid status
   it answers PermissionDenied and leaves the applications unchanged. *)
C17_UpdateStatusPermission ==
  [][\A p \in Principals, ev \in BOOLEAN, aid \in 1..MaxApps,
        st \in validStatuses :
       (updateApplicationStatus(p, ev, aid, st) /\ ~PolicyAllowsUpdate(p, aid))
       => /\ applications' = applications
          /\ (ev /\ Has(applications, aid))
               => ErrorKind(resp'.result) = "PermissionDenied"]_vars

(* What a request of an unverified subject is answered with. *)
Refusals ==
  {"403 Email verification required", "unauthenticated", "permission-denied"}

Collections == <<users, claimRole, companies, jobs, applications, auditLogs>>

(* C13: a request whose subject has emailVerified = false creates no Company,
   Job or Application and changes no Application status: whichever handler
   serves it, the request is denied and every collection is left as it
   was. *)
C13_UnverifiedIsDenied ==
  [][/\ \A p \in Principals :
          (PostCompanies(p, FALSE) \/ requestEmployerUpgrade(p, FALSE))
          => (resp'.result \in Refusals /\ UNCHANGED Collections)
     /\ \A p \in Principals, cid \in CompanyIds :
          (PostJobs(p, FALSE, cid, MaxTime)
           \/ createJobFn(p, FALSE, cid, MaxTime))
          => (resp'.result \in Refusals /\ UNCHANGED Collections)
     /\ \A fam \in Families, p \in Users, jid \in JobIds :
          ApplyBegin(1, fam, p, FALSE, jid)
          => /\ req'[1].pc = "done"
             /\ req'[1].result \in Refusals
             /\ UNCHANGED Collections
     /\ \A p \in Principals, aid \in 1..MaxApps, st \in ReviewInputs :
          updateApplicationStatus(p, FALSE, aid, st)
          => (resp'.result \in Refusals /\ UNCHANGED Collections)]_vars

(* An unverified employer with an approved company has asked to post a job
   while there was room for one, and has been refused. *)
C13_Witness ==
  /\ resp = [op |-> "POST /api/jobs",
             result |-> "403 Email verification required"]
  /\ nextId.job <= MaxJobs
  /\ OwnsApproved("u1", 1)
  /\ Len(applications) > 0

StatusOf(s, id) == IF Has(s, id) THEN Get(s, id).status ELSE NoOne

(* Some Company or Job has a status of approved or rejected that it did not
   have before the step. *)
Moderated ==
  \/ \E cid \in CompanyIds :
       /\ StatusOf(companies, cid)' \in {"approved", "rejected"}
       /\ StatusOf(companies, cid)' # StatusOf(companies, cid)
  \/ \E jid \in JobIds :
       /\ StatusOf(jobs, jid)' \in {"approved", "rejected"}
       /\ StatusOf(jobs, jid)' # StatusOf(jobs, jid)

(* C16: a Company's or a Job's status becomes approved or rejected only in a
   request of the admin; the same request made by a seeker, an employer or
   an account without a role claim is denied, changes no Company or Job and
   appends nothing to the audit log. *)
C16_OnlyAdminModerates ==
  [][/\ Moderated =>
          \/ \E ev \in BOOLEAN, cid \in CompanyIds, st \in {"approved", "rejected"} :
               PatchCompanyStatus(Admin, ev, cid, st)
          \/ \E uid \in Users, cid \in CompanyIds :
               approveEmployerUpgrade(Admin, uid, cid)
          \/ \E ev \in BOOLEAN, jid \in JobIds, st \in {"approved", "rejected"} :
               PatchJobStatus(Admin, ev, jid, st)
          \/ \E jid \in JobIds : approveJob(Admin, jid)
     /\ \A p \in Users :
          (\/ \E ev \in BOOLEAN, cid \in CompanyIds, st \in {"approved", "rejected"} :
                PatchCompanyStatus(p, ev, cid, st)
           \/ \E uid \in Users, cid \in CompanyIds :
                approveEmployerUpgrade(p, uid, cid)
           \/ \E ev \in BOOLEAN, jid \in JobIds, st \in {"approved", "rejected"} :
                PatchJobStatus(p, ev, jid, st)
           \/ \E jid \in JobIds : approveJob(p, jid))
          => /\ resp'.result \in {"403 Email verification required",
                                  "403 Insufficient permissions",
                                  "permission-denied"}
             /\ UNCHANGED <<companies, jobs, auditLogs, users, claimRole>>]_vars

(* The employer who owns the approved company has asked to approve their own
   pending job and has been refused. *)
C16_Witness ==
  /\ resp = [op |-> "approveJob", result |-> "permission-denied"]
  /\ TokenRole("u1") = "employer"
  /\ Has(jobs, 1) /\ Get(jobs, 1).status = "pending"
  /\ Get(jobs, 1).posterUid = "u1"

(* The posting policy: the subject's token carries the employer role and
   the company named is stored, owned by the subject and approved. *)
PolicyAllowsPost(p, cid) ==
  /\ TokenRole(p) = "employer"
  /\ \E i \in 1..Len(companies) :
       /\ companies[i].id = cid
       /\ companies[i].ownerUid = p
       /\ companies[i].status = "approved"

JobCreated == Len(jobs') > Len(jobs)

(* C15: a Job is created only when the subject has the employer role and the
   company the job names exists, is owned by the subject and is approved;
   every stored Job's posterUid is the ownerUid of its Company; a creation
   that is refused stores no Job and no audit entry. *)
C15_JobNeedsOwnApprovedCompany ==
  /\ [](\A i \in 1..Len(jobs) :
          /\ Has(companies, jobs[i].companyId)
          /\ Get(companies, jobs[i].companyId).ownerUid = jobs[i].posterUid)
  /\ [][/\ JobCreated =>
             /\ Len(jobs') = Len(jobs) + 1
             /\ PolicyAllowsPost(jobs'[Len(jobs')].posterUid,
                                 jobs'[Len(jobs')].companyId)
        /\ (/\ resp'.op \in {"POST /api/jobs", "createJob"}
             /\ resp'.result \notin {"200", "ok"})
             => UNCHANGED <<jobs, auditLogs, nextId>>]_vars

(* u1 has a job stored, and a later creation has been refused because the
   company named is not the caller's approved one. *)
C15_Witness ==
  /\ Len(jobs) > 0
  /\ resp.op = "POST /api/jobs"
  /\ resp.result = "403 Company must be approved to post jobs"
  /\ ~OwnsApproved("u2", resp.body.companyId)

Entries(action, targetId) ==
  {k \in 1..Len(auditLogs) :
     auditLogs[k].action = action /\ auditLogs[k].targetId = targetId}

(* C18: the audit log holds exactly one entry for each privileged mutation
   that took effect; read for application submission, once no submission is
   half way through: every stored Application has exactly one
   application_submitted entry. *)
C18_OneEntryPerSubmission ==
  Quiescent =>
    \A i \in 1..Len(applications) :
      Cardinality(Entries("application_submitted", applications[i].id)) = 1

(* C19: every workflow operation is all-or-nothing; read for the employer
   approval: a call of approveEmployerUpgrade that reports an error has
   changed neither the Company nor the role claim nor the profile nor the
   audit log. *)
C19_FailedApprovalChangesNothing ==
  [][\A p \in Principals, uid \in Users, cid \in CompanyIds :
       (approveEmployerUpgrade(p, uid, cid) /\ resp'.result # "ok")
       => UNCHANGED <<companies, claimRole, users, auditLogs>>]_vars

(* The attributes of a Company the model carries; updatedAt is the store's
   own stamp and not one of them. *)
CompanyAttributes == {"id", "ownerUid", "status", "name", "phone", "address"}

SameOn(c, d, fields) == \A f \in fields : c[f] = d[f]

(* C20: PUT /api/companies/:id changes a Company only when the subject owns
   it, and then only the Company named; it never changes status or ownerUid;
   when the Company is approved every attribute other than phone and
   address is left as it was. *)
C20_CompanyUpdateFrame ==
  [][\A p \in Principals, ev \in BOOLEAN, cid \in PostedFor, K \in EditKeys :
       PutCompanies(p, ev, cid, CompanyBody(K))
       => /\ Len(companies') = Len(companies)
          /\ \A i \in 1..Len(companies) :
               LET c == companies[i]
                   c2 == companies'[i]
               IN /\ (c.id # cid \/ c.ownerUid # p) => c2 = c
                  /\ SameOn(c, c2, {"id", "status", "ownerUid"})
                  /\ c.status = "approved"
                       => SameOn(c, c2, CompanyAttributes \ {"phone", "address"})]_vars

(* The owner of approved company 1 has sent a body with a new name, phone
   and address: the phone and the address were taken, the name was not. *)
C20_Witness ==
  /\ resp.op = "PUT /api/companies/:id" /\ resp.result = "200" /\ resp.id = 1
  /\ Get(companies, 1).status = "approved"
  /\ Get(companies, 1).name = "n0"
  /\ Get(companies, 1).phone = "p1"
  /\ Get(companies, 1).address = "a1"

(* C14: no operation a user invokes on their own behalf sets their role to
   employer or admin: a stored role appears as seeker, and afterwards only
   changes from seeker to employer, in a step in which the admin approves a
   Company for that user. *)
C14_RoleOnlyRaisedByApproval ==
  [][\A u \in Users :
       users'[u] # users[u]
       => \/ users[u] = "absent" /\ users'[u] = "seeker"
          \/ /\ users[u] = "seeker" /\ users'[u] = "employer"
             /\ \E cid \in CompanyIds : approveEmployerUpgrade(Admin, u, cid)]_vars

(* C21: deletion cascades completely; read for the jobs that go with their
   poster: after deleteUser(u) no Application remains that refers to a Job
   the deletion removed. *)
C21_DeleteUserCascadesToApplications ==
  [][\A u \in Users :
       deleteUser(u)
       => \A i \in 1..Len(applications') :
            Has(jobs, applications'[i].jobId)
            => Has(jobs', applications'[i].jobId)]_vars

(* C22: counter increments are never lost; read for applicationCount: the
   counting step of every submission raises the Job's applicationCount by
   exactly one, whatever other submissions run at the same time, and no
   step lowers the counter of a stored Job. *)
C22_IncrementsNotLost ==
  [][/\ \A s \in Slots :
          (ApplyCount(s) /\ Has(jobs, req[s].jobId))
          => Get(jobs', req[s].jobId).applicationCount
               = Get(jobs, req[s].jobId).applicationCount + 1
     /\ \A jid \in JobIds :
          (Has(jobs, jid) /\ Has(jobs', jid))
          => Get(jobs', jid).applicationCount >= Get(jobs, jid).applicationCount]_vars

(* C23: a request without credentials reads a Job only if the Job is
   approved; read for get-job-by-id, which takes no credentials: the Job
   GET /api/jobs/:id answers with has status approved. *)
C23_PublicReadsOnlyApproved ==
  (resp.op = "GET /api/jobs/:id" /\ resp.result = "200")
  => resp.job.status = "approved"

(* C24: an Application is written only against a Job that is approved at
   the moment of the write, also when the admin rejects the Job or the
   sweep expires it while the submission is under way. *)
C24_WrittenAgainstApprovedJob ==
  [][\A s \in Slots :
       ApplyCreate(s)
       => /\ Has(jobs, req[s].jobId)
          /\ Get(jobs, req[s].jobId).status = "approved"]_vars

(* C25: a Job is moved to approved only while its Company is approved, and
   the approval records the approving admin in approvedBy. *)
C25_ApprovalNeedsApprovedCompany ==
  [][\A jid \in JobIds :
       (/\ Has(jobs, jid) /\ Has(jobs', jid)
        /\ Get(jobs, jid).status # "approved"
        /\ Get(jobs', jid).status = "approved")
       => /\ StatusOf(companies, Get(jobs, jid).companyId) = "approved"
          /\ Get(jobs', jid).approvedBy = Admin]_vars

(* C26: the application_status_changed entry of a status update carries as
   metadata.previousStatus the status the Application held immediately
   before the update took effect, also when two updates of the same
   Application interleave: at the moment of the write, the status the call
   will log as previous is the one stored. *)
C26_PreviousStatusIsTheOneReplaced ==
  [][\A s \in Slots :
       (updateStatusUpdate(s) /\ Has(applications, req[s].applicationId))
       => req[s].applicationData.status
            = Get(applications, req[s].applicationId).status]_vars

(* C27: a status change addressed to an id nothing is stored under fails
   with NotFound, changes no record and appends no audit entry; read for
   the company status route: it never reports success for a missing
   company. *)
C27_MissingIdIsNotFound ==
  [][\A p \in Principals, ev \in BOOLEAN, cid \in CompanyIds,
        st \in CompanyStatus :
       (PatchCompanyStatus(p, ev, cid, st) /\ ~Has(companies, cid))
       => /\ resp'.result # "200"
          /\ auditLogs' = auditLogs
          /\ companies' = companies]_vars

Reviewable == {"reviewed", "shortlisted", "rejected", "offered"}

(* C28: no Application ever has status withdrawn; updateApplicationStatus
   only ever sets a status to reviewed, shortlisted, rejected or offered; a
   call with any other target status changes nothing and, for a verified
   caller, is refused with InvalidArgument. *)
C28_NoWithdrawnAndOnlyReviewable ==
  /\ [](\A i \in 1..Len(applications) : applications[i].status # "withdrawn")
  /\ [][\A p \in Principals, ev \in BOOLEAN, aid \in 1..MaxApps,
           st \in StatusInputs :
          updateApplicationStatus(p, ev, aid, st)
          => /\ \A i \in 1..Len(applications) :
                  applications'[i].status # applications[i].status
                  => applications'[i].status \in Reviewable
             /\ st \notin Reviewable
                  => /\ UNCHANGED <<applications, auditLogs>>
                     /\ ev => ErrorKind(resp'.result) = "InvalidArgument"]_vars

(* A call with a target status outside the four has been refused after an
   earlier call had moved Application 1 to reviewed. *)
C28_Witness ==
  /\ resp = [op |-> "updateApplicationStatus", result |-> "invalid-argument"]
  /\ Has(applications, 1)
  /\ Get(applications, 1).status = "reviewed"

(* C29: every approved Job whose lastDate has passed eventually has status
   expired, and an expired Job stays expired forever; read for the second
   half: no step gives a stored Job that is expired another status. *)
C29_ExpiredStaysExpired ==
  [][\A jid \in JobIds :
       (Has(jobs, jid) /\ Has(jobs', jid) /\ Get(jobs, jid).status = "expired")
       => Get(jobs', jid).status = "expired"]_vars

(* C30: hasMore is true exactly when the full ordered result holds an item
   beyond the last position of the returned page, and total is the size of
   the full filtered result. *)
C30_HasMoreAndTotal ==
  searchOut # NoSearch =>
    /\ searchOut.out.hasMore
         = (Len(FullResult) > searchOut.out.page * searchOut.out.limit)
    /\ searchOut.out.total = Len(FullResult)

=============================================================================
